---- MODULE Spec2Model ----
(***************************************************************************)
(* Model of the FileUploader component (File Ingestion & Delivery Upload    *)
(* Manager): file validation, the candidate queue, the transfer handler,    *)
(* the upload notes and their independent save; and of the                  *)
(* BrandingImageUpload component.                                          *)
(***************************************************************************)
EXTENDS Integers, Sequences, FiniteSets, TLC

VARIABLES
    files,          \* useState<File[]>          the candidate queue
    uploading,      \* useState(false)           busy flag
    progress,       \* useState(0)               percentage shown
    notes,          \* useState(initialNotes)    note text
    notesChanged,   \* useState(false)           dirty flag
    uploadMethod,   \* useState('local')         local | dropbox | google
    uploadType,     \* useState(initialUploadType) raw | edited
    role,           \* user?.role                ("none" when missing)
    shootId,        \* prop shootId              (TRUE when bound)
    initialNotes,   \* prop initialNotes
    hasCallback,    \* prop onUploadComplete     (TRUE when supplied)
    authToken,      \* localStorage 'authToken'  (TRUE when present)
    inflight,       \* pending axios.post calls of handleUpload
    saves,          \* pending updateShoot calls of handleSaveNotes
    timers,         \* pending setTimeout callbacks of the connect handlers
    ev,             \* what the last handler did: toasts, request, callback
    vIn, vOut,      \* input and result of validateFiles (SpecValidate)
    branding        \* the BrandingImageUpload component (SpecBrand)

vars == <<files, uploading, progress, notes, notesChanged, uploadMethod,
          uploadType, role, shootId, initialNotes, hasCallback, authToken,
          inflight, saves, timers, ev, vIn, vOut, branding>>

----------------------------------------------------------------------------
(* Bounds *)
MaxFiles    == 2    \* longest candidate queue explored
MaxBatch    == 2    \* longest batch handed to validateFiles
MaxSessions == 2    \* most upload requests pending at once
MaxSaves    == 1    \* most note saves pending at once
MaxTimers   == 1    \* most pending "connected" timers at once
ProgressTotal == 2  \* progressEvent.total of the modelled request
MaxLimbs    == 5    \* base-1024 digits of a size given to formatFileSize
MaxPending  == 2    \* most storage calls of BrandingImageUpload pending at once

----------------------------------------------------------------------------
(* File validation *)

allowedFileTypes ==
    <<"image/jpeg", "image/png", "image/tiff", "video/mp4", "video/quicktime",
      "application/zip", "application/x-zip-compressed">>

MaxFileSize == 100 * 1024 * 1024

Includes(list, x) == \E i \in 1..Len(list) : list[i] = x

File(name, type, size) == [name |-> name, type |-> type, size |-> size]

NoResult == [validFiles |-> <<>>, invalidFiles |-> <<>>, toasts |-> <<>>]

Toast(title) == [title |-> title, count |-> 0, description |-> <<>>]

ValidateStepGE(acc, file) ==
    IF ~Includes(allowedFileTypes, file.type)
    THEN [acc EXCEPT !.invalidFiles =
              Append(@, [file |-> file, reason |-> "File type not supported"])]
    ELSE IF file.size >= MaxFileSize
    THEN [acc EXCEPT !.invalidFiles =
              Append(@, [file |-> file, reason |-> "File exceeds 100MB size limit"])]
    ELSE [acc EXCEPT !.validFiles = Append(@, file)]

ValidateStepSizeFirst(acc, file) ==
    IF file.size > MaxFileSize
    THEN [acc EXCEPT !.invalidFiles =
              Append(@, [file |-> file, reason |-> "File exceeds 100MB size limit"])]
    ELSE IF ~Includes(allowedFileTypes, file.type)
    THEN [acc EXCEPT !.invalidFiles =
              Append(@, [file |-> file, reason |-> "File type not supported"])]
    ELSE [acc EXCEPT !.validFiles = Append(@, file)]

\* body of the forEach callback of validateFiles
ValidateStep(acc, file) ==
    IF ~Includes(allowedFileTypes, file.type)
    THEN [acc EXCEPT !.invalidFiles =
              Append(@, [file |-> file, reason |-> "File type not supported"])]
    ELSE IF file.size > MaxFileSize
    THEN [acc EXCEPT !.invalidFiles =
              Append(@, [file |-> file, reason |-> "File exceeds 100MB size limit"])]
    ELSE [acc EXCEPT !.validFiles = Append(@, file)]

RECURSIVE ForEach(_, _, _)
ForEach(fileList, i, acc) ==
    IF i > Len(fileList) THEN acc
    ELSE ForEach(fileList, i + 1, ValidateStep(acc, fileList[i]))

\* the aggregated toast of validateFiles: count and "name: reason" entries
RejectToast(invalidFiles) ==
    [title |-> "file(s) couldn't be added",
     count |-> Len(invalidFiles),
     description |-> [i \in 1..Len(invalidFiles) |->
                         <<invalidFiles[i].file.name, invalidFiles[i].reason>>]]

validateFiles(fileList) ==
    LET r == ForEach(fileList, 1, NoResult)
    IN  [validFiles   |-> r.validFiles,
         invalidFiles |-> r.invalidFiles,
         toasts       |-> IF Len(r.invalidFiles) > 0
                          THEN <<RejectToast(r.invalidFiles)>> ELSE <<>>]

----------------------------------------------------------------------------
(* Inputs *)

photo  == File("photo.jpg",  "image/jpeg",      2 * 1024 * 1024)
pack   == File("pack.zip",   "application/zip", MaxFileSize)
tour   == File("tour.mp4",   "video/mp4",       150 * 1024 * 1024)
readme == File("readme.txt", "text/plain",      1024)

\* new File([], name): no type option and no content
RemoteFile(name) == File(name, "", 0)

DropboxListing == <<"client_project_photo.jpg", "property_tour.mov",
                    "listings_package.zip">>
GoogleListing  == <<"real_estate_front.jpg", "real_estate_kitchen.jpg",
                    "property_walkthrough.mp4">>

Texts == {"", "a"}
Roles == {"photographer", "editor", "admin", "superadmin", "client", "none"}

RECURSIVE SeqsUpTo(_, _)
SeqsUpTo(S, n) ==
    IF n = 0 THEN {<<>>}
    ELSE LET shorter == SeqsUpTo(S, n - 1)
         IN  shorter \cup {Append(q, x) : q \in shorter, x \in S}

NoEvent == [toasts |-> <<>>, posted |-> <<>>, cb |-> <<>>,
            update |-> {}, outcome |-> "none", session |-> <<>>]

----------------------------------------------------------------------------
(* BrandingImageUpload *)

\* branding is the state of one mounted BrandingImageUpload:
\*   preview    useState(initialImage || null)
\*   uploading  useState(false)
\*   pending    the awaited storage calls, oldest first
\*   changed    the value of the last onChange call (<<>> before the first)
\*   last       the user's last accepted action: a file name, "clear", "none"
\*   toast      the title of the toast of the last step ("" when none)

MaxImageSize == 5 * 1024 * 1024

\* null as preview, '' as argument of onChange
NoImage == [store |-> "none", file |-> ""]

\* supabase.storage.from('user-files').getPublicUrl(filePath)
PublicUrl(file) == [store |-> "supabase", file |-> file.name]

\* URL.createObjectURL(file)
ObjectUrl(file) == [store |-> "blob", file |-> file.name]

logo   == File("logo.png",   "image/png",       1024 * 1024)
banner == File("banner.jpg", "image/jpeg",      MaxImageSize)
poster == File("poster.png", "image/png",       MaxImageSize + 1)
brief  == File("brief.pdf",  "application/pdf", 1024)

BrandInputs == {logo, banner, poster, brief}

InitialImages ==
    {NoImage, [store |-> "supabase", file |-> "old.png"],
              [store |-> "cdn", file |-> "old.png"]}

Mount(initialImage) ==
    [preview |-> initialImage, uploading |-> FALSE, pending |-> <<>>,
     changed |-> <<>>, last |-> "none", toast |-> ""]

\* file.type.startsWith('image/'), on the types of BrandInputs
IsImageType(type) == type \in {"image/png", "image/jpeg"}

\* preview.includes('supabase')
FromSupabase(url) == url.store = "supabase"

----------------------------------------------------------------------------
(* Initial state: the first render of the component *)

initialUploadType(r) == IF r = "editor" THEN "edited" ELSE "raw"

InitProps(roles, shootIds, callbacks, texts) ==
    /\ role \in roles
    /\ shootId \in shootIds
    /\ hasCallback \in callbacks
    /\ initialNotes \in texts
    /\ authToken \in BOOLEAN

InitFileUploader ==
    /\ files = <<>>
    /\ uploading = FALSE
    /\ progress = 0
    /\ notes = initialNotes
    /\ notesChanged = FALSE
    /\ uploadMethod = "local"
    /\ uploadType = initialUploadType(role)
    /\ inflight = <<>>
    /\ saves = <<>>
    /\ timers = [dropbox |-> 0, google |-> 0]
    /\ ev = NoEvent
    /\ vIn = <<>>
    /\ vOut = [done |-> FALSE, result |-> NoResult]

InitState ==
    /\ InitFileUploader
    /\ branding = Mount(NoImage)

propVars == <<role, shootId, initialNotes, hasCallback, authToken>>
noteVars == <<notes, notesChanged>>
xferVars == <<uploading, progress, inflight>>
viewVars == <<uploadMethod, uploadType>>
validateVars == <<vIn, vOut>>

----------------------------------------------------------------------------
(* Candidate queue handlers *)

AddFilesUnique(queue, validFiles) ==
    queue \o SelectSeq(validFiles, LAMBDA f : ~Includes(queue, f))

\* setFiles(prev => [...prev, ...validFiles])
AddFiles(queue, validFiles) == queue \o validFiles

\* <input type="file" onChange>; the input is rendered in local mode only
handleFileInputChange(fileList) ==
    /\ uploadMethod = "local"
    /\ IF Len(fileList) = 0
       THEN /\ files' = files
            /\ ev' = NoEvent
       ELSE LET v == validateFiles(fileList)
            IN  /\ Len(files) + Len(v.validFiles) <= MaxFiles
                /\ files' = AddFiles(files, v.validFiles)
                /\ ev' = [NoEvent EXCEPT !.toasts = v.toasts]
    /\ UNCHANGED <<propVars, noteVars, xferVars, viewVars, saves, timers, validateVars, branding>>

\* onDrop of the dropzone, rendered in local mode only
handleDrop(fileList) ==
    /\ uploadMethod = "local"
    /\ IF Len(fileList) = 0
       THEN /\ files' = files
            /\ ev' = NoEvent
       ELSE LET v == validateFiles(fileList)
            IN  /\ Len(files) + Len(v.validFiles) <= MaxFiles
                /\ files' = AddFiles(files, v.validFiles)
                /\ ev' = [NoEvent EXCEPT !.toasts = v.toasts]
    /\ UNCHANGED <<propVars, noteVars, xferVars, viewVars, saves, timers, validateVars, branding>>

\* the "+" button of an entry of the Dropbox listing
AddDropboxItem(i) ==
    /\ uploadMethod = "dropbox"
    /\ Len(files) < MaxFiles
    /\ files' = Append(files, RemoteFile(DropboxListing[i]))
    /\ ev' = NoEvent
    /\ UNCHANGED <<propVars, noteVars, xferVars, viewVars, saves, timers, validateVars, branding>>

\* the "+" button of an entry of the Google Drive listing
AddGoogleItem(i) ==
    /\ uploadMethod = "google"
    /\ Len(files) < MaxFiles
    /\ files' = Append(files, RemoteFile(GoogleListing[i]))
    /\ ev' = NoEvent
    /\ UNCHANGED <<propVars, noteVars, xferVars, viewVars, saves, timers, validateVars, branding>>

\* the "Select All" button of either provider panel
SelectAll ==
    /\ uploadMethod \in {"dropbox", "google"}
    /\ files' = <<>>
    /\ ev' = NoEvent
    /\ UNCHANGED <<propVars, noteVars, xferVars, viewVars, saves, timers, validateVars, branding>>

\* prev.filter((_, i) => i !== index), with 1-based positions
FilterIndex(q, index) ==
    [i \in 1..(Len(q) - 1) |-> IF i < index THEN q[i] ELSE q[i + 1]]

\* the "x" button of a queue row (disabled while uploading); index is 1-based here
handleRemoveFile(index) ==
    /\ ~uploading
    /\ index \in 1..Len(files)
    /\ files' = FilterIndex(files, index)
    /\ ev' = NoEvent
    /\ UNCHANGED <<propVars, noteVars, xferVars, viewVars, saves, timers, validateVars, branding>>

\* "Clear All" (disabled while uploading) and "Cancel" (hidden while uploading)
handleClearFiles ==
    /\ ~uploading
    /\ Len(files) > 0
    /\ files' = <<>>
    /\ ev' = NoEvent
    /\ UNCHANGED <<propVars, noteVars, xferVars, viewVars, saves, timers, validateVars, branding>>

----------------------------------------------------------------------------
(* Upload mode and category *)

\* the "Local Upload" button
SelectLocal ==
    /\ uploadMethod' = "local"
    /\ ev' = NoEvent
    /\ UNCHANGED <<files, propVars, noteVars, xferVars, uploadType, saves, timers, validateVars, branding>>

connectDropbox ==
    /\ timers.dropbox + timers.google < MaxTimers
    /\ uploadMethod' = "dropbox"
    /\ timers' = [timers EXCEPT !.dropbox = @ + 1]
    /\ ev' = [NoEvent EXCEPT !.toasts = <<Toast("Connecting to Dropbox")>>]
    /\ UNCHANGED <<files, propVars, noteVars, xferVars, uploadType, saves, validateVars, branding>>

connectGoogleDrive ==
    /\ timers.dropbox + timers.google < MaxTimers
    /\ uploadMethod' = "google"
    /\ timers' = [timers EXCEPT !.google = @ + 1]
    /\ ev' = [NoEvent EXCEPT !.toasts = <<Toast("Connecting to Google Drive")>>]
    /\ UNCHANGED <<files, propVars, noteVars, xferVars, uploadType, saves, validateVars, branding>>

\* the setTimeout callback of connectDropbox
DropboxTimer ==
    /\ timers.dropbox > 0
    /\ timers' = [timers EXCEPT !.dropbox = @ - 1]
    /\ ev' = [NoEvent EXCEPT !.toasts = <<Toast("Dropbox Connected")>>]
    /\ UNCHANGED <<files, propVars, noteVars, xferVars, viewVars, saves, validateVars, branding>>

\* the setTimeout callback of connectGoogleDrive
GoogleTimer ==
    /\ timers.google > 0
    /\ timers' = [timers EXCEPT !.google = @ - 1]
    /\ ev' = [NoEvent EXCEPT !.toasts = <<Toast("Google Drive Connected")>>]
    /\ UNCHANGED <<files, propVars, noteVars, xferVars, viewVars, saves, validateVars, branding>>

showRawTab    == role \in {"photographer", "admin", "superadmin"}
showEditedTab == role \in {"editor", "admin", "superadmin"}

\* <Tabs onValueChange>, rendered when both tabs are available
setUploadType(v) ==
    /\ showRawTab /\ showEditedTab
    /\ v # uploadType
    /\ uploadType' = v
    /\ ev' = NoEvent
    /\ UNCHANGED <<files, propVars, noteVars, xferVars, uploadMethod, saves, timers, validateVars, branding>>

\* useAuth() hands the component another user
RoleChange(r) ==
    /\ r # role
    /\ role' = r
    /\ ev' = NoEvent
    /\ UNCHANGED <<files, shootId, initialNotes, hasCallback, authToken, noteVars,
                   xferVars, viewVars, saves, timers, validateVars, branding>>

----------------------------------------------------------------------------
(* Transfer *)

UploadButtonAlways == TRUE

\* {!uploading && ( ... <Button onClick={handleUpload}> ... )}
UploadButtonShown == ~uploading

FormDataLastOnly(queue) == <<queue[Len(queue)]>>

\* files.forEach(file => formData.append('files[]', file))
FormData(queue) == queue

Request(queue, text) ==
    [payload |-> FormData(queue), files |-> queue, notes |-> text, loaded |-> 0]

UploadingKeptAfterFailure(flag) == flag

\* catch: setUploading(false)
UploadingAfterFailure(flag) == FALSE

EmptyQueueIgnored(queue) == FALSE

\* if (files.length === 0)
NoFilesSelected(queue) == Len(queue) = 0

TokenNeverMissing(token) == FALSE

\* if (!token), token = localStorage.getItem('authToken')
TokenMissing(token) == ~token

handleUpload ==
    /\ UploadButtonShown
    /\ IF NoFilesSelected(files)
       THEN /\ ev' = [NoEvent EXCEPT !.toasts = <<Toast("No files selected")>>]
            /\ UNCHANGED <<uploading, inflight>>
       ELSE IF TokenMissing(authToken)
       THEN \* setUploading(true), throw, catch: toast and setUploading(false)
            /\ uploading' = UploadingAfterFailure(TRUE)
            /\ ev' = [NoEvent EXCEPT !.toasts = <<Toast("Upload Failed")>>,
                                     !.outcome = "failed",
                                     !.session = files]
            /\ UNCHANGED inflight
       ELSE /\ Len(inflight) < MaxSessions
            /\ uploading' = TRUE
            /\ inflight' = Append(inflight, Request(files, notes))
            /\ ev' = [NoEvent EXCEPT !.posted = <<FormData(files)>>]
    /\ UNCHANGED <<files, progress, propVars, noteVars, viewVars, saves, timers, validateVars, branding>>

\* Math.round((loaded * 100) / total) for 0 <= loaded <= total
percentCompleted(loaded, total) == (2 * loaded * 100 + total) \div (2 * total)

\* onUploadProgress of pending request k; the transport reports
\* non-decreasing loaded <= total
onUploadProgress(k, loaded) ==
    /\ k \in 1..Len(inflight)
    /\ loaded \in inflight[k].loaded..ProgressTotal
    /\ progress' = percentCompleted(loaded, ProgressTotal)
    /\ inflight' = [inflight EXCEPT ![k].loaded = loaded]
    /\ ev' = NoEvent
    /\ UNCHANGED <<files, uploading, propVars, noteVars, viewVars, saves, timers, validateVars, branding>>

\* `${files.length} files uploaded successfully.`
QueueKeptAfterUpload(queue) == queue

\* setFiles([]) of the success path
QueueAfterUpload(queue) == <<>>

UploadCompleteToast(queue) == [Toast("Upload Complete") EXCEPT !.count = Len(queue)]

\* axios.post of request k resolves; onUploadComplete returns or throws
UploadResolve(k, callbackThrows) ==
    /\ k \in 1..Len(inflight)
    /\ callbackThrows => hasCallback
    /\ LET req == inflight[k]
           done == [NoEvent EXCEPT
                       !.session = req.files,
                       !.cb = IF hasCallback
                              THEN <<[files |-> req.files, notes |-> req.notes]>>
                              ELSE <<>>]
       IN  /\ inflight' = FilterIndex(inflight, k)
           /\ uploading' = IF callbackThrows
                           THEN UploadingAfterFailure(uploading)
                           ELSE FALSE
           /\ IF callbackThrows
              THEN /\ ev' = [done EXCEPT !.toasts = <<UploadCompleteToast(req.files),
                                                     Toast("Upload Failed")>>,
                                         !.outcome = "threw"]
                   /\ UNCHANGED <<files, progress, notesChanged>>
              ELSE /\ ev' = [done EXCEPT !.toasts = <<UploadCompleteToast(req.files)>>,
                                         !.outcome = "succeeded"]
                   /\ progress' = 0
                   /\ files' = QueueAfterUpload(files)
                   /\ notesChanged' = FALSE
    /\ UNCHANGED <<notes, propVars, viewVars, saves, timers, validateVars, branding>>

\* axios.post of request k rejects (network error or non-2xx response)
UploadReject(k) ==
    /\ k \in 1..Len(inflight)
    /\ inflight' = FilterIndex(inflight, k)
    /\ uploading' = UploadingAfterFailure(uploading)
    /\ ev' = [NoEvent EXCEPT !.toasts = <<Toast("Upload Failed")>>,
                                          !.outcome = "failed",
                                          !.session = inflight[k].files]
    /\ UNCHANGED <<files, progress, propVars, noteVars, viewVars, saves, timers, validateVars, branding>>

----------------------------------------------------------------------------
(* Notes *)

\* <textarea onChange>, disabled while uploading
handleNotesChange(value) ==
    /\ ~uploading
    /\ value # notes
    /\ notes' = value
    /\ notesChanged' = TRUE
    /\ ev' = NoEvent
    /\ UNCHANGED <<files, propVars, xferVars, viewVars, saves, timers, validateVars, branding>>

\* the caller passes another initialNotes; the effect on [initialNotes] runs
InitialNotesChange(value) ==
    /\ value # initialNotes
    /\ initialNotes' = value
    /\ notes' = IF value # notes /\ ~notesChanged THEN value ELSE notes
    /\ ev' = NoEvent
    /\ UNCHANGED <<files, role, shootId, hasCallback, authToken, notesChanged,
                   xferVars, viewVars, saves, timers, validateVars, branding>>

NotesUpdateIgnoresTab(r, t, text) ==
    IF r = "photographer" THEN {<<"photographerNotes", text>>}
    ELSE IF r = "editor" THEN {<<"editingNotes", text>>}
    ELSE IF r = "admin" \/ r = "superadmin" THEN {<<"photographerNotes", text>>}
    ELSE {<<"shootNotes", text>>}

\* notesUpdate of handleSaveNotes, as the set of (field, text) entries of
\* its notes object
NotesUpdate(r, t, text) ==
    IF r = "photographer" THEN {<<"photographerNotes", text>>}
    ELSE IF r = "editor" THEN {<<"editingNotes", text>>}
    ELSE IF r = "admin" \/ r = "superadmin"
    THEN IF t = "raw" THEN {<<"photographerNotes", text>>}
         ELSE {<<"editingNotes", text>>}
    ELSE {<<"shootNotes", text>>}

\* {shootId && notesChanged && ( <Button onClick={handleSaveNotes}> )}
SaveButtonShown == shootId /\ notesChanged

ShootIdAlwaysBound(id) == FALSE

\* if (!shootId)
NoShootId(id) == ~id

handleSaveNotes ==
    /\ IF NoShootId(shootId)
       THEN /\ ev' = [NoEvent EXCEPT !.toasts = <<Toast("Cannot save notes")>>]
            /\ UNCHANGED saves
       ELSE /\ Len(saves) < MaxSaves
            /\ saves' = Append(saves, [update |-> NotesUpdate(role, uploadType, notes)])
            /\ ev' = [NoEvent EXCEPT
                         !.update = NotesUpdate(role, uploadType, notes)]
    /\ UNCHANGED <<files, propVars, noteVars, xferVars, viewVars, timers, validateVars, branding>>

\* a click on the "Save Notes Only" button
ClickSaveNotes ==
    /\ SaveButtonShown
    /\ handleSaveNotes

SaveKeepsDirty(flag) == flag

\* setNotesChanged(false) after the awaited updateShoot
SaveClearsDirty(flag) == FALSE

\* updateShoot of pending save k resolves
SaveResolve(k) ==
    /\ k \in 1..Len(saves)
    /\ saves' = FilterIndex(saves, k)
    /\ notesChanged' = SaveClearsDirty(notesChanged)
    /\ ev' = [NoEvent EXCEPT !.toasts = <<Toast("Notes saved")>>]
    /\ UNCHANGED <<files, notes, propVars, xferVars, viewVars, timers, validateVars, branding>>

\* updateShoot of pending save k rejects
SaveReject(k) ==
    /\ k \in 1..Len(saves)
    /\ saves' = FilterIndex(saves, k)
    /\ ev' = [NoEvent EXCEPT !.toasts = <<Toast("Error saving notes")>>]
    /\ UNCHANGED <<files, propVars, noteVars, xferVars, viewVars, timers, validateVars, branding>>

----------------------------------------------------------------------------
(* Size formatting *)

\* A size in bytes is a sequence of base-1024 digits, least significant
\* first: a JS number holds every integer below 2^53, a TLC integer ends at
\* 2^31.  Math.log, Math.pow and the division are taken as exact.
sizes == <<"Bytes", "KB", "MB", "GB">>

RECURSIVE Trim(_)
\* the digits without leading (most significant) zeros
Trim(bytes) ==
    IF bytes = <<>> \/ bytes[Len(bytes)] # 0
    THEN bytes
    ELSE Trim(SubSeq(bytes, 1, Len(bytes) - 1))

\* bytes === 0
IsZero(bytes) == Trim(bytes) = <<>>

\* Math.floor(Math.log(bytes) / Math.log(k)), bytes > 0
LogFloor(bytes) == Len(Trim(bytes)) - 1

RECURSIVE Frac200(_)
\* floor(200 * low / 1024^Len(low)) of the digits low
Frac200(low) ==
    IF low = <<>>
    THEN 0
    ELSE (200 * low[Len(low)] + Frac200(SubSeq(low, 1, Len(low) - 1))) \div 1024

\* (bytes / Math.pow(k, i)).toFixed(2) in hundredths, i = LogFloor(bytes):
\* the nearest multiple of 0.01, the larger one of two
toFixed2(bytes) ==
    LET t == Trim(bytes)
    IN  100 * t[Len(t)] + (Frac200(SubSeq(t, 1, Len(t) - 1)) + 1) \div 2

\* parseFloat("w.ff") + '': the decimal text without trailing zeros
NumberText(hundredths) ==
    LET w == hundredths \div 100
        f == hundredths % 100
    IN  IF f = 0 THEN ToString(w)
        ELSE IF f % 10 = 0 THEN ToString(w) \o "." \o ToString(f \div 10)
        ELSE IF f < 10 THEN ToString(w) \o ".0" \o ToString(f)
        ELSE ToString(w) \o "." \o ToString(f)

\* the text returned and the two parts it is concatenated from
formatFileSize(bytes) ==
    IF IsZero(bytes)
    THEN [text |-> "0 Bytes", number |-> "0", suffix |-> "Bytes"]
    ELSE LET i == LogFloor(bytes)
             number == NumberText(toFixed2(bytes))
             \* sizes[i] is undefined past the end of the array
             suffix == IF i + 1 <= Len(sizes) THEN sizes[i + 1] ELSE "undefined"
         IN  [text |-> number \o " " \o suffix, number |-> number, suffix |-> suffix]

----------------------------------------------------------------------------
(* BrandingImageUpload handlers *)

fileUploaderVars ==
    <<files, uploading, progress, notes, notesChanged, uploadMethod,
      uploadType, role, shootId, initialNotes, hasCallback, authToken,
      inflight, saves, timers, ev, vIn, vOut>>

\* onChange of the hidden file input, opened by the click target and by the
\* Upload/Change button
handleFileChange(file) ==
    /\ IF ~IsImageType(file.type)
       THEN branding' = [branding EXCEPT !.toast = "Invalid file type"]
       ELSE IF file.size > MaxImageSize
       THEN branding' = [branding EXCEPT !.toast = "File too large"]
       ELSE /\ Len(branding.pending) < MaxPending
            /\ branding' = [branding EXCEPT
                               !.uploading = TRUE,
                               !.pending = Append(@, [op |-> "upload", file |-> file]),
                               !.last = file.name,
                               !.toast = ""]
    /\ UNCHANGED fileUploaderVars

\* the awaited storage upload k settles: with no error, or with uploadError
\* or a rejection (catch); then finally
UploadSettles(k, failed) ==
    /\ k \in 1..Len(branding.pending)
    /\ branding.pending[k].op = "upload"
    /\ LET file == branding.pending[k].file
           url  == IF failed THEN ObjectUrl(file) ELSE PublicUrl(file)
       IN  branding' = [branding EXCEPT
                           !.preview = url,
                           !.changed = <<url>>,
                           !.toast = IF failed THEN "Cloud upload failed"
                                     ELSE "Image uploaded",
                           !.uploading = FALSE,
                           !.pending = FilterIndex(@, k)]
    /\ UNCHANGED fileUploaderVars

\* setPreview(null); onChange(''); toast "Image removed"
Cleared(b) ==
    [b EXCEPT !.preview = NoImage, !.changed = <<NoImage>>, !.toast = "Image removed"]

\* the "x" and Remove buttons, rendered while there is a preview
handleClearImage ==
    /\ branding.preview # NoImage
    /\ IF FromSupabase(branding.preview)
       THEN /\ Len(branding.pending) < MaxPending
            /\ branding' = [branding EXCEPT
                               !.pending = Append(@, [op |-> "clear",
                                                      path |-> branding.preview.file]),
                               !.last = "clear",
                               !.toast = ""]
       ELSE branding' = [Cleared(branding) EXCEPT !.last = "clear"]
    /\ UNCHANGED fileUploaderVars

\* the awaited storage remove k settles (a rejection is caught and logged)
RemoveSettles(k) ==
    /\ k \in 1..Len(branding.pending)
    /\ branding.pending[k].op = "clear"
    /\ branding' = [Cleared(branding) EXCEPT !.pending = FilterIndex(@, k)]
    /\ UNCHANGED fileUploaderVars

----------------------------------------------------------------------------
(* Specifications *)

\* Spec: the candidate queue under every upload mode, and the transfer;
\* one user role, a bound shoot, notes left as loaded
SpecBatches == {<<>>, <<photo>>, <<tour>>, <<photo, tour>>}

Init ==
    /\ InitProps({"photographer"}, {TRUE}, {TRUE}, {""})
    /\ InitState

Next ==
    \/ \E b \in SpecBatches : handleFileInputChange(b)
    \/ \E b \in SpecBatches : handleDrop(b)
    \/ AddDropboxItem(1)
    \/ AddGoogleItem(1)
    \/ SelectAll
    \/ \E i \in 1..MaxFiles : handleRemoveFile(i)
    \/ handleClearFiles
    \/ SelectLocal
    \/ connectDropbox
    \/ connectGoogleDrive
    \/ DropboxTimer
    \/ GoogleTimer
    \/ handleUpload
    \/ \E k \in 1..MaxSessions, l \in 0..ProgressTotal : onUploadProgress(k, l)
    \/ \E k \in 1..MaxSessions, t \in BOOLEAN : UploadResolve(k, t)
    \/ \E k \in 1..MaxSessions : UploadReject(k)

Spec == Init /\ [][Next]_vars

\* SpecNotes: the notes, their independent save and the transfer with its
\* progress, over a queue of local files; the callback supplied or not, the
\* auth token present or not
NotesBatches == {<<>>, <<photo>>, <<tour>>}

InitNotes ==
    /\ InitProps({"photographer"}, {TRUE}, BOOLEAN, Texts)
    /\ InitState

NextNotes ==
    \/ \E b \in NotesBatches : handleFileInputChange(b)
    \/ \E b \in NotesBatches : handleDrop(b)
    \/ \E i \in 1..MaxFiles : handleRemoveFile(i)
    \/ handleClearFiles
    \/ handleUpload
    \/ \E k \in 1..MaxSessions, l \in 0..ProgressTotal : onUploadProgress(k, l)
    \/ \E k \in 1..MaxSessions, t \in BOOLEAN : UploadResolve(k, t)
    \/ \E k \in 1..MaxSessions : UploadReject(k)
    \/ \E v \in Texts : handleNotesChange(v)
    \/ \E v \in Texts : InitialNotesChange(v)
    \/ ClickSaveNotes
    \/ \E k \in 1..MaxSaves : SaveResolve(k)
    \/ \E k \in 1..MaxSaves : SaveReject(k)

SpecNotes == InitNotes /\ [][NextNotes]_vars

\* the pending request settles: await axios.post resolves or rejects
Settle ==
    \/ \E k \in 1..MaxSessions, t \in BOOLEAN : UploadResolve(k, t)
    \/ \E k \in 1..MaxSessions : UploadReject(k)

\* SpecLive: SpecNotes where a pending request does settle
SpecLive == InitNotes /\ [][NextNotes]_vars /\ WF_vars(Settle)

\* SpecDirty: every kind of event next to the notes: edits, loads, saves,
\* transfers, queue operations, mode switches and, for an admin, category
\* switches
InitDirty ==
    /\ InitProps({"admin"}, {TRUE}, {TRUE}, Texts)
    /\ authToken
    /\ InitState

NextDirty ==
    \/ \E b \in NotesBatches : handleFileInputChange(b)
    \/ \E i \in 1..MaxFiles : handleRemoveFile(i)
    \/ handleClearFiles
    \/ SelectAll
    \/ SelectLocal
    \/ connectDropbox
    \/ DropboxTimer
    \/ \E v \in {"raw", "edited"} : setUploadType(v)
    \/ handleUpload
    \/ \E k \in 1..MaxSessions, t \in BOOLEAN : UploadResolve(k, t)
    \/ \E k \in 1..MaxSessions : UploadReject(k)
    \/ \E v \in Texts : handleNotesChange(v)
    \/ \E v \in Texts : InitialNotesChange(v)
    \/ ClickSaveNotes
    \/ \E k \in 1..MaxSaves : SaveResolve(k)
    \/ \E k \in 1..MaxSaves : SaveReject(k)

SpecDirty == InitDirty /\ [][NextDirty]_vars

\* SpecRoles: the note save under every role and category
InitRoles ==
    /\ InitProps(Roles, {TRUE}, {TRUE}, Texts)
    /\ authToken
    /\ InitState

NextRoles ==
    \/ \E r \in Roles : RoleChange(r)
    \/ \E v \in {"raw", "edited"} : setUploadType(v)
    \/ \E v \in Texts : handleNotesChange(v)
    \/ \E v \in Texts : InitialNotesChange(v)
    \/ ClickSaveNotes
    \/ \E k \in 1..MaxSaves : SaveResolve(k)
    \/ \E k \in 1..MaxSaves : SaveReject(k)

SpecRoles == InitRoles /\ [][NextRoles]_vars

\* SpecSave: handleSaveNotes called in any state, the shoot bound or not,
\* next to edits, loads, the queue and the transfer
InitSave ==
    /\ InitProps({"photographer"}, BOOLEAN, {TRUE}, Texts)
    /\ authToken
    /\ InitState

NextSave ==
    \/ \E b \in NotesBatches : handleFileInputChange(b)
    \/ handleClearFiles
    \/ handleUpload
    \/ \E k \in 1..MaxSessions, l \in 0..ProgressTotal : onUploadProgress(k, l)
    \/ \E k \in 1..MaxSessions, t \in BOOLEAN : UploadResolve(k, t)
    \/ \E k \in 1..MaxSessions : UploadReject(k)
    \/ \E v \in Texts : handleNotesChange(v)
    \/ \E v \in Texts : InitialNotesChange(v)
    \/ handleSaveNotes
    \/ \E k \in 1..MaxSaves : SaveResolve(k)
    \/ \E k \in 1..MaxSaves : SaveReject(k)

SpecSave == InitSave /\ [][NextSave]_vars

\* SpecQueue: local batches of distinct valid files, picked and dropped,
\* next to removal, clearing and the transfer
QueueBatches == SeqsUpTo({photo, pack, tour, readme}, MaxBatch)

InitQueue ==
    /\ InitProps({"photographer"}, {TRUE}, {TRUE}, {""})
    /\ authToken
    /\ InitState

NextQueue ==
    \/ \E b \in QueueBatches : handleFileInputChange(b)
    \/ \E b \in QueueBatches : handleDrop(b)
    \/ \E index \in 1..MaxFiles : handleRemoveFile(index)
    \/ handleClearFiles
    \/ handleUpload
    \/ \E k \in 1..MaxSessions, t \in BOOLEAN : UploadResolve(k, t)
    \/ \E k \in 1..MaxSessions : UploadReject(k)

SpecQueue == InitQueue /\ [][NextQueue]_vars

\* SpecValidate: validateFiles applied to every batch of candidate files
CandidateFiles ==
    { File("a.jpg", "image/jpeg", 0),
      File("b.jpg", "image/jpeg", MaxFileSize),
      File("c.jpg", "image/jpeg", MaxFileSize + 1),
      tour, readme,
      File("big.txt", "text/plain", MaxFileSize + 1),
      RemoteFile("g") }

InitValidate ==
    /\ InitProps({"photographer"}, {TRUE}, {TRUE}, {""})
    /\ authToken
    /\ InitState

NewBatch(fileList) ==
    /\ vOut.done
    /\ vIn' = fileList
    /\ vOut' = [done |-> FALSE, result |-> NoResult]
    /\ UNCHANGED <<files, propVars, noteVars, xferVars, viewVars, saves, timers, ev, branding>>

Validate ==
    /\ ~vOut.done
    /\ vOut' = [done |-> TRUE, result |-> validateFiles(vIn)]
    /\ UNCHANGED <<vIn, files, propVars, noteVars, xferVars, viewVars, saves, timers, ev, branding>>

NextValidate ==
    \/ \E b \in SeqsUpTo(CandidateFiles, MaxBatch) : NewBatch(b)
    \/ Validate

SpecValidate == InitValidate /\ [][NextValidate]_vars

\* SpecFormat: formatFileSize on sizes below 1024^MaxLimbs
FormatDigits == {0, 1, 512}

InitFormat ==
    /\ InitProps({"photographer"}, {TRUE}, {TRUE}, {""})
    /\ authToken
    /\ InitState

NewSize(bytes) ==
    /\ vOut.done
    /\ vIn' = bytes
    /\ vOut' = [done |-> FALSE, result |-> NoResult]
    /\ UNCHANGED <<files, propVars, noteVars, xferVars, viewVars, saves, timers, ev, branding>>

Format ==
    /\ ~vOut.done
    /\ vOut' = [done |-> TRUE, result |-> formatFileSize(vIn)]
    /\ UNCHANGED <<vIn, files, propVars, noteVars, xferVars, viewVars, saves, timers, ev, branding>>

NextFormat ==
    \/ \E bytes \in SeqsUpTo(FormatDigits, MaxLimbs) : NewSize(bytes)
    \/ Format

SpecFormat == InitFormat /\ [][NextFormat]_vars

\* SpecBrand: one BrandingImageUpload, mounted with or without an image
InitBrand ==
    /\ InitProps({"photographer"}, {TRUE}, {TRUE}, {""})
    /\ authToken
    /\ InitFileUploader
    /\ \E image \in InitialImages : branding = Mount(image)

NextBrand ==
    \/ \E file \in BrandInputs : handleFileChange(file)
    \/ \E k \in 1..MaxPending, failed \in BOOLEAN : UploadSettles(k, failed)
    \/ handleClearImage
    \/ \E k \in 1..MaxPending : RemoveSettles(k)

SpecBrand == InitBrand /\ [][NextBrand]_vars

----------------------------------------------------------------------------
(* Properties *)

AllowedTypes == {allowedFileTypes[i] : i \in 1..Len(allowedFileTypes)}

IsAccepted(f) == f.type \in AllowedTypes /\ f.size <= 104857600
IsRejected(f) == ~IsAccepted(f)

RejectedFiles(r) == [i \in 1..Len(r.invalidFiles) |-> r.invalidFiles[i].file]

\* C1: validateFiles partitions its batch: the accepted files are exactly the
\* files of an allowed type and of at most 104,857,600 bytes, in input order;
\* the rejected files are exactly the others; a rejected file does not keep
\* the valid files of the batch out.
C1_ValidatePartitions ==
    vOut.done =>
        /\ vOut.result.validFiles = SelectSeq(vIn, IsAccepted)
        /\ RejectedFiles(vOut.result) = SelectSeq(vIn, IsRejected)
        /\ Len(vOut.result.validFiles) + Len(vOut.result.invalidFiles) = Len(vIn)

C1_Witness ==
    /\ vOut.done
    /\ Len(vOut.result.invalidFiles) > 0
    /\ \E i \in 1..Len(vOut.result.validFiles) :
           vOut.result.validFiles[i].size = 104857600

\* C2: a rejected file of an unsupported type carries "File type not
\* supported" whatever its size, the size reason is given only to a file of
\* an allowed type above the limit, every rejected file is reported once, and
\* one toast listing all of them is issued exactly when a file was rejected.
C2_RejectReasons ==
    vOut.done =>
        LET bad == vOut.result.invalidFiles
            t   == vOut.result.toasts
        IN  /\ \A i \in 1..Len(bad) :
                   /\ bad[i].reason \in {"File type not supported",
                                         "File exceeds 100MB size limit"}
                   /\ bad[i].file.type \notin AllowedTypes
                          => bad[i].reason = "File type not supported"
                   /\ bad[i].reason = "File exceeds 100MB size limit"
                          => /\ bad[i].file.type \in AllowedTypes
                             /\ bad[i].file.size > 104857600
            /\ Len(bad) = Len(SelectSeq(vIn, IsRejected))
            /\ Len(t) = IF Len(bad) > 0 THEN 1 ELSE 0
            /\ Len(t) = 1 =>
                   /\ t[1].count = Len(bad)
                   /\ Len(t[1].description) = Len(bad)
                   /\ \A i \in 1..Len(bad) :
                          t[1].description[i] = <<bad[i].file.name, bad[i].reason>>

C2_Witness ==
    /\ vOut.done
    /\ Len(vOut.result.toasts) = 1
    /\ \E i, j \in 1..Len(vOut.result.invalidFiles) :
           /\ vOut.result.invalidFiles[i].file.type = "text/plain"
           /\ vOut.result.invalidFiles[i].file.size > 104857600
           /\ vOut.result.invalidFiles[j].reason = "File exceeds 100MB size limit"

\* C3: every file in the candidate queue has an allowed type and a size
\* within the limit.
C3_QueueSatisfiesPolicy ==
    \A i \in 1..Len(files) : IsAccepted(files[i])

\* C4: at most one upload request is pending in every reachable state, and
\* the busy flag is set exactly while it is pending: no second request is
\* issued while a transfer is in flight.
C4_SingleSession ==
    /\ Len(inflight) <= 1
    /\ uploading <=> Len(inflight) = 1

C4_Witness ==
    /\ uploading
    /\ Len(inflight) = 1
    /\ inflight[1].loaded > 0
    /\ Len(files) > 0

\* C5: right after a transfer succeeded the queue is empty, progress is 0,
\* the dirty flag is false and the manager is idle.
C5_AfterSuccess ==
    ev.outcome = "succeeded" =>
        /\ files = <<>>
        /\ progress = 0
        /\ ~notesChanged
        /\ ~uploading

C5_Witness ==
    /\ ev.outcome = "succeeded"
    /\ Len(ev.session) = 2
    /\ notes # initialNotes

\* C6: the completion callback is invoked once per successful transfer with
\* the files queued at its start and the note text current at completion,
\* and not at all when the request failed or nothing was transferred.
C6_CallbackArguments ==
    /\ ev.outcome = "succeeded" /\ hasCallback
           => ev.cb = <<[files |-> ev.session, notes |-> notes]>>
    /\ ev.outcome \in {"failed", "none"} => ev.cb = <<>>

\* C7: when a transfer fails the queue equals the queue immediately before
\* startTransfer(), the note text and the dirty flag are unchanged and the
\* completion callback is not invoked.
C7_FailureKeepsQueue ==
    [][ev'.outcome = "failed" =>
          /\ files' = ev'.session
          /\ notes' = notes
          /\ notesChanged' = notesChanged
          /\ ev'.cb = <<>>]_vars

\* C8: while a transfer is in flight the queue stays the queue the transfer
\* was started with.
C8_QueueFrozenWhileUploading ==
    uploading /\ Len(inflight) > 0 => files = inflight[1].files

SavedNow(e) == e.toasts = <<Toast("Notes saved")>>

\* C9: the dirty flag is false initially and after a load of initial text,
\* true after every setText, false after a successful save and after a
\* successful transfer, and no other step takes it from true to false.
C9_DirtyFlag ==
    /\ ~notesChanged
    /\ [][/\ (notes' # notes /\ initialNotes' = initialNotes) => notesChanged'
          /\ (notes' # notes /\ initialNotes' # initialNotes) => ~notesChanged'
          /\ SavedNow(ev') => ~notesChanged'
          /\ ev'.outcome = "succeeded" => ~notesChanged'
          /\ (notesChanged /\ ~notesChanged')
                 => (SavedNow(ev') \/ ev'.outcome = "succeeded")]_vars

C9_Witness ==
    /\ ~notesChanged
    /\ SavedNow(ev)
    /\ notes # initialNotes
    /\ uploadMethod = "dropbox"

DestinationField(r, c) ==
    CASE r = "photographer" -> "photographerNotes"
      [] r = "editor" -> "editingNotes"
      [] r \in {"admin", "superadmin"} /\ c = "raw" -> "photographerNotes"
      [] r \in {"admin", "superadmin"} /\ c = "edited" -> "editingNotes"
      [] OTHER -> "shootNotes"

\* C10: a save writes exactly one field, the one the table gives for the
\* role and the category current at the time of the save.
C10_DestinationField ==
    /\ ev.update # {} => ev.update = {<<DestinationField(role, uploadType), notes>>}
    /\ \A k \in 1..Len(saves) : Cardinality(saves[k].update) = 1

C10_Witness ==
    /\ ev.update = {<<"editingNotes", "a">>}
    /\ role = "superadmin"

NoFilesToast(e) == e.toasts = <<Toast("No files selected")>>

\* C11: a startTransfer() that reports "No files selected" found the queue
\* empty, issues no request and leaves uploading, progress, the notes, the
\* dirty flag and the queue as they were, the manager idle; and no request
\* is ever issued for an empty queue.
C11_EmptyQueueStart ==
    /\ [][NoFilesToast(ev') =>
             /\ files = <<>>
             /\ ev'.posted = <<>>
             /\ ~uploading'
             /\ UNCHANGED <<files, uploading, progress, notes, notesChanged, inflight>>]_vars
    /\ [][ev'.posted # <<>> => files # <<>> /\ ~NoFilesToast(ev')]_vars

C11_Witness ==
    /\ NoFilesToast(ev)
    /\ progress > 0
    /\ notesChanged

\* C12: progress is 0 when a transfer session starts, whatever the outcome
\* of the session before it.
C12_ProgressZeroAtStart ==
    ev.posted # <<>> => progress = 0

\* C13: progress is an integer in [0,100], equal to the rounded percentage
\* of the latest progress event of the session, it never decreases between
\* the start of a session and its terminal outcome, and it does not change
\* by a progress event once no session is active.
C13_ProgressMonotonic ==
    /\ [][/\ progress' \in 0..100
          /\ (uploading /\ uploading') => progress' >= progress
          /\ (uploading /\ uploading' /\ progress' # progress) =>
                 /\ Len(inflight') = 1
                 /\ 2 * (progress' * ProgressTotal - 100 * inflight'[1].loaded)
                        \in (1 - ProgressTotal)..ProgressTotal
          /\ (~uploading /\ ~uploading') => progress' = progress]_vars

\* C14: with no auth token a startTransfer() on a non-empty queue issues no
\* request: it shows the "Upload Failed" notification, keeps the queue, the
\* notes and the dirty flag, invokes no callback and leaves the manager
\* idle; no request is ever pending without a token.
C14_MissingToken ==
    /\ [](~authToken => inflight = <<>> /\ ev.posted = <<>> /\ ~uploading)
    /\ [][(~authToken /\ ev'.outcome = "failed") =>
             /\ ev'.toasts = <<Toast("Upload Failed")>>
             /\ ev'.session = files
             /\ ev'.posted = <<>>
             /\ ev'.cb = <<>>
             /\ UNCHANGED <<files, notes, notesChanged, progress>>
             /\ ~uploading']_vars

C14_Witness ==
    /\ ~authToken
    /\ ev.outcome = "failed"
    /\ ev.toasts = <<Toast("Upload Failed")>>
    /\ Len(files) = 2
    /\ notesChanged

SaveFailedNow(e) == e.toasts = <<Toast("Error saving notes")>>

\* C15: when the update-notes call of a save fails, the error notification
\* is shown, the note text is unchanged and the dirty flag is set
\* afterwards, whatever happened while the save was in flight.
C15_FailedSaveKeepsDirty ==
    [][SaveFailedNow(ev') => notesChanged' /\ notes' = notes]_vars

CannotSaveToast(e) == e.toasts = <<Toast("Cannot save notes")>>

\* C16: a save with no shoot bound makes no update-notes call, shows
\* "Cannot save notes" and leaves the note text, the dirty flag, the queue
\* and the transfer state unchanged.
C16_SaveWithoutShoot ==
    /\ [](~shootId => saves = <<>> /\ ev.update = {})
    /\ [][CannotSaveToast(ev') =>
             /\ ~shootId
             /\ ev'.update = {}
             /\ UNCHANGED <<notes, notesChanged, files, uploading, progress,
                            inflight, saves>>]_vars
    /\ [][(handleSaveNotes /\ ~shootId) => CannotSaveToast(ev')]_vars

C16_Witness ==
    /\ CannotSaveToast(ev)
    /\ notesChanged
    /\ uploading
    /\ progress > 0

IsPrefix(p, q) == Len(p) <= Len(q) /\ SubSeq(q, 1, Len(p)) = p

\* C17: a staged file stays in the queue, in the same relative order, until
\* removeAt, clear() or a successful transfer removes it: every other step
\* (mode or provider switch, connect, an action of a provider listing, ...)
\* leaves the queue a prefix of the new queue.
C17_StagedFilesStay ==
    [][~IsPrefix(files, files') =>
          \/ \E index \in 1..Len(files) : handleRemoveFile(index)
          \/ handleClearFiles
          \/ /\ \E k \in 1..Len(inflight), t \in BOOLEAN : UploadResolve(k, t)
             /\ ev'.outcome = "succeeded"]_vars

\* C18: a batch added by local pick or by drag-and-drop is appended at the
\* end of the queue, its valid files in their input order, so N picked and
\* then M dropped valid files give a queue of length N+M in order of
\* addition; a file already in the queue is added again.
C18_AppendInOrder ==
    [][\A b \in QueueBatches :
          (handleFileInputChange(b) \/ handleDrop(b)) =>
              /\ files' = files \o SelectSeq(b, IsAccepted)
              /\ Len(files') = Len(files) + Cardinality({i \in 1..Len(b) : IsAccepted(b[i])})]_vars

C18_Witness ==
    /\ Len(files) = 2
    /\ files[1] = files[2]
    /\ ev.toasts # <<>>
    /\ ~uploading

\* C19: a provider's browse listing is exposed (and its items can be added)
\* only once the handshake has completed: while the "connected" notification
\* of a provider is still to come, that provider's listing is not shown.
C19_ListingAfterConnected ==
    /\ uploadMethod = "dropbox" => timers.dropbox = 0
    /\ uploadMethod = "google" => timers.google = 0

\* C20: a started transfer whose request settles returns the manager to
\* Idle: uploading leads to ~uploading, uploading holds only while a request
\* is pending, every settling step (success, throwing callback, rejection)
\* and the missing-credential failure end with uploading = false, a failed
\* note save does not touch it, and in Idle startTransfer, clear() and a
\* note save are possible again.
C20_ReturnsToIdle ==
    /\ uploading ~> ~uploading
    /\ [](uploading => inflight # <<>>)
    /\ [][(Settle \/ ev'.outcome = "failed") => ~uploading']_vars
    /\ [][(\E k \in 1..MaxSaves : SaveReject(k)) => UNCHANGED uploading]_vars
    /\ [](~uploading => /\ ENABLED handleUpload
                        /\ files # <<>> => ENABLED handleClearFiles
                        /\ (notesChanged /\ saves = <<>>) => ENABLED ClickSaveNotes)

C20_Witness ==
    /\ ~uploading
    /\ ev.outcome = "failed"
    /\ authToken
    /\ progress > 0
    /\ notesChanged

SizeUnits == <<"Bytes", "KB", "MB", "GB">>

\* the largest of the four units in which the size is at least 1
LargestUnit(bytes) ==
    LET top == Len(Trim(bytes))
    IN  IF top <= Len(SizeUnits) THEN SizeUnits[top] ELSE SizeUnits[Len(SizeUnits)]

LocalInputs == {photo, pack, tour, readme}

Payloads == {inflight[k].payload : k \in 1..Len(inflight)}
               \cup {ev.posted[k] : k \in 1..Len(ev.posted)}

\* C22: a start of a transfer issues one request whose payload is the queue
\* of that moment, every file once and in queue order, and no payload holds
\* a file that validation rejects (a 2 MB JPEG and a 150 MB MP4 picked: the
\* payload is the JPEG alone).
C22_PayloadIsQueue ==
    /\ [][ev'.posted # <<>> =>
             /\ ev'.posted = <<files>>
             /\ inflight' = Append(inflight, inflight'[Len(inflight')])
             /\ inflight'[Len(inflight')].payload = files]_vars
    /\ [][inflight' # inflight /\ Len(inflight') > Len(inflight) =>
             ev'.posted # <<>>]_vars
    /\ [](\A p \in Payloads : \A j \in 1..Len(p) :
              p[j] \in LocalInputs => IsAccepted(p[j]))

C22_Witness ==
    /\ ev.posted = <<<<photo, photo>>>>
    /\ inflight[1].payload = <<photo, photo>>

\* the step hands the text off: the caller supplies it as initial text, a
\* save that sent it succeeds, or the completion callback receives it
HandedOffNow(text) ==
    \/ initialNotes' # initialNotes /\ text = initialNotes'
    \/ \E k \in 1..Len(saves) :
           /\ SaveResolve(k)
           /\ \E u \in saves[k].update : u[2] = text
    \/ ev'.cb # <<>> /\ text = ev'.cb[1].notes

\* C23: while the dirty flag is false the note text is the text most
\* recently handed off: it is the initial text at first, a step that hands
\* a text off ends with the flag false only if that text is the note text,
\* and no other step clears the flag or changes the text under a clear flag.
C23_CleanMeansHandedOff ==
    /\ ~notesChanged => notes = initialNotes
    /\ [][~notesChanged' =>
             IF \E text \in Texts : HandedOffNow(text)
             THEN HandedOffNow(notes')
             ELSE ~notesChanged /\ notes' = notes]_vars

TerminalTitles == {"Upload Complete", "Upload Failed"}

\* C24: the step that ends a transfer attempt shows exactly one terminal
\* notification, "Upload Complete" or "Upload Failed", and leaves the queue
\* as it was only when the attempt failed (request rejected or not sent).
C24_OneTerminalNotification ==
    [][ev'.outcome # "none" =>
          /\ Len(ev'.toasts) = 1
          /\ ev'.toasts[1].title \in TerminalTitles
          /\ (files # <<>> /\ files' = files) => ev'.outcome = "failed"
          /\ ev'.outcome = "failed" => files' = files]_vars

\* C25: a successful transfer removes only the files of its payload: when
\* the queue is the payload followed by files that entered it since the
\* start, those later files are the queue after the success.
C25_SuccessRemovesPayloadOnly ==
    [][(ev'.outcome = "succeeded" /\ IsPrefix(ev'.session, files)) =>
          files' = SubSeq(files, Len(ev'.session) + 1, Len(files))]_vars

\* C26: with no shoot bound no upload request is issued: none is pending
\* and the last step posted none.
C26_NoRequestWithoutShoot ==
    ~shootId => inflight = <<>> /\ ev.posted = <<>>

IsAcceptedImage(f) == f.type \in {"image/png", "image/jpeg"} /\ f.size <= 5242880

\* C27: when no upload and no clear of BrandingImageUpload is pending, the
\* preview and the last onChange value are those of the user's most recent
\* action (the image selected last, or nothing after a later clear); a
\* rejected file changes neither.
C27_LatestActionWins ==
    /\ [](branding.pending = <<>> =>
             /\ branding.last = "clear" =>
                    /\ branding.preview = NoImage
                    /\ branding.changed = <<NoImage>>
             /\ branding.last \notin {"clear", "none"} =>
                    /\ branding.preview.file = branding.last
                    /\ branding.preview.store \in {"supabase", "blob"}
                    /\ branding.changed = <<branding.preview>>)
    /\ [][\A f \in BrandInputs :
             (handleFileChange(f) /\ ~IsAcceptedImage(f)) =>
                 /\ branding'.preview = branding.preview
                 /\ branding'.changed = branding.changed]_vars

====
